---- MODULE Spec2Model ----
(***************************************************************************)
(* The cart-to-order pipeline of core/services (cart.py, checkout.py,      *)
(* payment.py) over the tables of core/models.py.                          *)
(*                                                                         *)
(* Every service function runs in its own request thread, inside           *)
(* transaction.atomic but for remove_cart_item, whose statements commit    *)
(* one by one.  The database is modelled with row-level exclusive          *)
(* locks (select_for_update) and READ COMMITTED visibility: a statement    *)
(* sees the rows committed when it runs, a locking read waits for the row  *)
(* lock and then reads the row's latest committed version, and the rows a  *)
(* transaction writes become visible to the others when it commits.  A     *)
(* transaction's writes are therefore applied in its last step; an         *)
(* exception rolls the transaction back, which writes nothing and releases *)
(* its locks.  Money is counted in cents.  Saved addresses are edited and  *)
(* deleted outside the services (the admin site, address_delete_view).     *)
(***************************************************************************)
EXTENDS Integers, Sequences, FiniteSets, TLC

\* ---------------------------------------------------------------- bounds
MaxStock == 2
MaxQty == 2
MaxCarts == 2
MaxOrders == 2
MaxItems == 3
MaxAdmin == 2

Threads == {"t1", "t2"}
Users == {"u1", "u2"}
Products == {"p1", "p2"}
Addresses == {"a1", "a2"}
Prices == {500, 1000}
\* The values an address's fields take (cep, street, number, complement,
\* district, city and state, taken together).
Streets == {"s1", "s2"}

\* Address.user: each user has saved one address (views.address_create_view).
AddressOwner == [a \in Addresses |-> IF a = "a1" THEN "u1" ELSE "u2"]

CartStatus == {"active", "converted", "abandoned"}
OrderStatus == {"pending", "paid", "shipped", "delivered", "canceled"}
PaymentStatus == {"pending", "paid", "failed", "refunded"}
PaymentMethod == {"pix", "card", "boleto"}
\* The methods the request threads pay with; the admin site records boleto.
Methods == {"pix", "card"}

VARIABLES
    stock,      \* Product.stock, by product
    price,      \* Product.price, by product, in cents
    active,     \* Product.is_active, by product
    carts,      \* Cart rows: carts[id] = [user, status]
    items,      \* CartItem rows: a set of [id, cart, product, quantity]
    nextItem,   \* the next CartItem id the database hands out
    orders,     \* Order rows with their OrderItem rows:
                \*   orders[id] = [user, status, total, cart, ship, lines]
    payments,   \* Payment rows: payments[id] = [order, method, status]
    address,    \* Address rows: address[id] = [exists, street]
    th,         \* each request thread: its call, its position and its locals
    last,       \* the call that ended last: [op, arg, res, ret]
    admin       \* number of edits made through the admin site

vars == <<stock, price, active, carts, items, nextItem, orders, payments, address, th, last, admin>>
db == <<stock, price, active, carts, items, nextItem, orders, payments, address>>

\* ------------------------------------------------------------ the threads
NoRead == [p \in {} |-> 0]

Idle ==
    [pc |-> "idle", op |-> "none", user |-> "none", product |-> "none", qty |-> 0,
     cart |-> 0, addr |-> "none", ship |-> "none", order |-> 0, method |-> "none",
     item |-> 0, seen |-> 0, ostatus |-> "none", snap |-> <<>>, read |-> NoRead,
     locks |-> {}]

Ready(t) == th[t].pc = "idle"

\* Thread t's call op returns v (r = "ok") or raises r: the transaction ends,
\* its locks are released and the thread is free for the next request.
Done(t, op, r, v) ==
    /\ th' = [th EXCEPT ![t] = Idle]
    /\ last' = [op |-> op, arg |-> "none", res |-> r, ret |-> v]

\* The same for simulate_payment, whose method argument is kept with the result.
DonePay(t, m, r, v) ==
    /\ th' = [th EXCEPT ![t] = Idle]
    /\ last' = [op |-> "pay", arg |-> m, res |-> r, ret |-> v]

\* Thread t's call goes on from the position and locals of rec.
Goes(t, rec) ==
    /\ th' = [th EXCEPT ![t] = rec]
    /\ last' = last

CartRow(c) == <<"cart", c>>
ProductRow(p) == <<"product", p>>
OrderRow(o) == <<"order", o>>
ItemRow(i) == <<"item", i>>

\* select_for_update: the row is not locked by another transaction.
LockFree(t, row) == \A s \in Threads \ {t} : row \notin th[s].locks

Max(S) == CHOOSE x \in S : \A y \in S : y <= x

\* Rows that calls in flight may still insert, so that the bounds are never
\* met in the middle of a call.
MayCreateCart(s) ==
    \/ th[s].pc \in {"goc_create", "add_cart"}
    \/ th[s].pc \in {"add_write", "set_write", "rm_write"} /\ th[s].cart = 0
    \/ th[s].pc = "set_cart"
           /\ \A c \in 1..Len(carts) : ~(carts[c].user = th[s].user /\ carts[c].status = "active")
MayCreateItem(s) ==
    \/ th[s].pc = "add_cart"
    \/ th[s].pc = "add_write" /\ th[s].item = 0
    \/ th[s].pc = "set_cart" /\ th[s].qty > 0
    \/ th[s].pc = "set_write" /\ th[s].item = 0 /\ th[s].qty > 0
MayCreateOrder(s) == th[s].pc \in {"ck_lock", "ck_write"}
RoomForCart == Len(carts) + Cardinality({s \in Threads : MayCreateCart(s)}) < MaxCarts
RoomForItem == nextItem - 1 + Cardinality({s \in Threads : MayCreateItem(s)}) < MaxItems
RoomForOrder == Len(orders) + Cardinality({s \in Threads : MayCreateOrder(s)}) < MaxOrders

\* Each user's saved address, as the address form stored it.
SavedAddresses == [a \in Addresses |-> [exists |-> TRUE, street |-> "s1"]]

\* ------------------------------------------------------------------ Init
Init ==
    /\ stock = [p \in Products |-> IF p = "p1" THEN MaxStock ELSE 1]
    /\ price = [p \in Products |-> IF p = "p1" THEN 1000 ELSE 500]
    /\ active = [p \in Products |-> TRUE]
    /\ carts = <<>>
    /\ items = {}
    /\ nextItem = 1
    /\ orders = <<>>
    /\ payments = <<>>
    /\ address = SavedAddresses
    /\ th = [t \in Threads |-> Idle]
    /\ last = [op |-> "none", arg |-> "none", res |-> "none", ret |-> 0]
    /\ admin = 0

\* ------------------------------------------------ cart.py: the active cart
ActiveCartsOf(u) ==
    {c \in 1..Len(carts) : carts[c].user = u /\ carts[c].status = "active"}

\* .filter(user, status=ACTIVE).order_by("-updated_at").first(): updated_at is
\* set when the row is created and no service saves an Active cart afterwards,
\* so the latest Active cart is the one created last; 0 stands for None.
LatestActiveCart(u) == IF ActiveCartsOf(u) = {} THEN 0 ELSE Max(ActiveCartsOf(u))

NewCart(u) == [user |-> u, status |-> "active"]

\* get_or_create_active_cart called on its own (views.cart_detail_view): the
\* locking lookup.  A cart that is found is returned and the transaction ends;
\* with none found the call goes on to create one.
GetCartLookup(t, u) ==
    /\ Ready(t)
    /\ LET c == LatestActiveCart(u)
           call == [Idle EXCEPT !.op = "get_cart", !.user = u]
       IN  IF c # 0
           THEN /\ LockFree(t, CartRow(c))
                /\ Done(t, "get_cart", "ok", 0)
           ELSE /\ RoomForCart
                /\ Goes(t, [call EXCEPT !.pc = "goc_create"])
    /\ UNCHANGED <<db, admin>>

\* Cart.objects.create(user=user, status=ACTIVE), and the commit.
GetCartCreate(t) ==
    /\ th[t].pc = "goc_create"
    /\ carts' = Append(carts, NewCart(th[t].user))
    /\ Done(t, "get_cart", "ok", 0)
    /\ UNCHANGED <<address, stock, price, active, items, nextItem, orders, payments, admin>>

\* ------------------------------------------------------ cart.py: add_to_cart
ItemsOf(c) == {i \in items : i.cart = c}

\* The id of the cart's item for the product, 0 when there is none.
ItemIdOf(c, p) ==
    IF \E i \in items : i.cart = c /\ i.product = p
    THEN (CHOOSE i \in items : i.cart = c /\ i.product = p).id
    ELSE 0

ItemById(id) == CHOOSE i \in items : i.id = id
ItemExists(id) == \E i \in items : i.id = id

\* Mutant of AddPrecheck: the check of the quantity left out.
AddPrecheck_AnyQuantity(p, q) ==
    IF ~active[p] THEN "ProductUnavailable"
    ELSE IF stock[p] < q THEN "ProductUnavailable"
    ELSE "ok"

\* The validations add_to_cart makes before it touches the cart: the quantity,
\* then Product.objects.filter(id, is_active=True).first(), then the advisory
\* stock check on the product as just read.
AddPrecheck(p, q) ==
    IF q <= 0 THEN "InvalidQuantity"
    ELSE IF ~active[p] THEN "ProductUnavailable"
    ELSE IF stock[p] < q THEN "ProductUnavailable"
    ELSE "ok"

AddValidate(t, u, p, q) ==
    /\ Ready(t)
    /\ LET call == [Idle EXCEPT !.op = "add", !.user = u, !.product = p, !.qty = q]
           r == AddPrecheck(p, q)
       IN  IF r # "ok"
           THEN Done(t, "add", r, 0)
           ELSE /\ RoomForCart
                /\ RoomForItem
                /\ Goes(t, [call EXCEPT !.pc = "add_cart", !.seen = stock[p]])
    /\ UNCHANGED <<db, admin>>

\* cart = get_or_create_active_cart(user), whose lock on a cart it finds lasts
\* to the end of add_to_cart's transaction, then CartItem.objects
\* .get_or_create(cart, product): an item that exists is checked against the
\* stock read before (new_qty = item.quantity + quantity).
AddCart(t) ==
    /\ th[t].pc = "add_cart"
    /\ LET c == LatestActiveCart(th[t].user)
           id == IF c = 0 THEN 0 ELSE ItemIdOf(c, th[t].product)
       IN  /\ c # 0 => LockFree(t, CartRow(c))
           /\ IF id # 0 /\ th[t].seen < ItemById(id).quantity + th[t].qty
              THEN Done(t, "add", "ProductUnavailable", 0)
              ELSE Goes(t, [th[t] EXCEPT !.pc = "add_write", !.cart = c, !.item = id,
                                         !.locks = IF c = 0 THEN {} ELSE {CartRow(c)}])
    /\ UNCHANGED <<db, admin>>

\* Mutant of AddQuantity: the row's quantity overwritten with the quantity added.
AddQuantity_Overwrite(its, id, n) ==
    {IF i.id = id THEN [i EXCEPT !.quantity = n] ELSE i : i \in its}

\* CartItem.objects.filter(id=item.id).update(quantity=F("quantity") + n): the
\* database adds to the row's current quantity; no row, no change.
AddQuantity(its, id, n) ==
    {IF i.id = id THEN [i EXCEPT !.quantity = @ + n] ELSE i : i \in its}

\* Mutant of AddWrite: the quantity added is taken off the product's stock.
AddWrite_ReservesStock(t) ==
    /\ th[t].pc = "add_write"
    /\ LET c == IF th[t].cart = 0 THEN Len(carts) + 1 ELSE th[t].cart
       IN  /\ carts' = IF th[t].cart = 0 THEN Append(carts, NewCart(th[t].user)) ELSE carts
           /\ IF th[t].item = 0
              THEN /\ items' = items \cup {[id |-> nextItem, cart |-> c,
                                            product |-> th[t].product, quantity |-> th[t].qty]}
                   /\ nextItem' = nextItem + 1
              ELSE /\ LockFree(t, ItemRow(th[t].item))
                   /\ items' = AddQuantity(items, th[t].item, th[t].qty)
                   /\ nextItem' = nextItem
           /\ Done(t, "add", "ok", 0)
    /\ stock' = [stock EXCEPT ![th[t].product] = @ - th[t].qty]
    /\ UNCHANGED <<address, price, active, orders, payments, admin>>

\* The writes of add_to_cart and its commit: the cart when none was found, the
\* item when the cart had none for the product, the increment otherwise.
AddWrite(t) ==
    /\ th[t].pc = "add_write"
    /\ LET c == IF th[t].cart = 0 THEN Len(carts) + 1 ELSE th[t].cart
       IN  /\ carts' = IF th[t].cart = 0 THEN Append(carts, NewCart(th[t].user)) ELSE carts
           /\ IF th[t].item = 0
              THEN /\ items' = items \cup {[id |-> nextItem, cart |-> c,
                                            product |-> th[t].product, quantity |-> th[t].qty]}
                   /\ nextItem' = nextItem + 1
              ELSE /\ LockFree(t, ItemRow(th[t].item))
                   /\ items' = AddQuantity(items, th[t].item, th[t].qty)
                   /\ nextItem' = nextItem
           /\ Done(t, "add", "ok", 0)
    /\ UNCHANGED <<address, stock, price, active, orders, payments, admin>>

\* ------------------------------------------------ cart.py: set_item_quantity
\* The validations set_item_quantity makes before it touches the cart: the
\* quantity, then Product.objects.filter(id, is_active=True).first().
SetPrecheck(p, q) ==
    IF q < 0 THEN "InvalidQuantity"
    ELSE IF ~active[p] THEN "ProductUnavailable"
    ELSE "ok"

SetValidate(t, u, p, q) ==
    /\ Ready(t)
    /\ LET call == [Idle EXCEPT !.op = "set", !.user = u, !.product = p, !.qty = q]
           r == SetPrecheck(p, q)
       IN  IF r # "ok"
           THEN Done(t, "set", r, 0)
           ELSE /\ ActiveCartsOf(u) = {} => RoomForCart
                /\ q > 0 => RoomForItem
                /\ Goes(t, [call EXCEPT !.pc = "set_cart", !.seen = stock[p]])
    /\ UNCHANGED <<db, admin>>

\* cart = get_or_create_active_cart(user), then the item lookup and, for a
\* quantity above 0, the advisory check against the stock read before.
SetCart(t) ==
    /\ th[t].pc = "set_cart"
    /\ LET c == LatestActiveCart(th[t].user)
           id == IF c = 0 THEN 0 ELSE ItemIdOf(c, th[t].product)
       IN  /\ c # 0 => LockFree(t, CartRow(c))
           /\ IF th[t].qty > 0 /\ th[t].seen < th[t].qty
              THEN Done(t, "set", "ProductUnavailable", 0)
              ELSE Goes(t, [th[t] EXCEPT !.pc = "set_write", !.cart = c, !.item = id,
                                         !.locks = IF c = 0 THEN {} ELSE {CartRow(c)}])
    /\ UNCHANGED <<db, admin>>

\* CartItem.objects.filter(id=item.id).update(quantity=n): no row, no change.
SetQuantity(its, id, n) ==
    {IF i.id = id THEN [i EXCEPT !.quantity = n] ELSE i : i \in its}

\* item.delete(): the row of that id, if it is still there.
DeleteItem(its, id) == {i \in its : i.id # id}

\* The writes of set_item_quantity and its commit: the cart when none was
\* found; with no item, nothing for quantity 0 and a new item otherwise; with
\* an item, its deletion for quantity 0 and its quantity set otherwise.
SetWrite(t) ==
    /\ th[t].pc = "set_write"
    /\ LET c == IF th[t].cart = 0 THEN Len(carts) + 1 ELSE th[t].cart
       IN  /\ carts' = IF th[t].cart = 0 THEN Append(carts, NewCart(th[t].user)) ELSE carts
           /\ IF th[t].item = 0
              THEN IF th[t].qty = 0
                   THEN UNCHANGED <<items, nextItem>>
                   ELSE /\ items' = items \cup {[id |-> nextItem, cart |-> c,
                                                 product |-> th[t].product, quantity |-> th[t].qty]}
                        /\ nextItem' = nextItem + 1
              ELSE /\ LockFree(t, ItemRow(th[t].item))
                   /\ items' = IF th[t].qty = 0 THEN DeleteItem(items, th[t].item)
                                ELSE SetQuantity(items, th[t].item, th[t].qty)
                   /\ nextItem' = nextItem
           /\ Done(t, "set", "ok", 0)
    /\ UNCHANGED <<address, stock, price, active, orders, payments, admin>>

\* ------------------------------------------------- cart.py: remove_from_cart
\* cart = get_or_create_active_cart(user): the cart found is locked.
RemoveBegin(t, u, p) ==
    /\ Ready(t)
    /\ LET c == LatestActiveCart(u)
       IN  /\ c # 0 => LockFree(t, CartRow(c))
           /\ c = 0 => RoomForCart
           /\ Goes(t, [Idle EXCEPT !.op = "remove", !.pc = "rm_write", !.user = u,
                                   !.product = p, !.cart = c,
                                   !.locks = IF c = 0 THEN {} ELSE {CartRow(c)}])
    /\ UNCHANGED <<db, admin>>

\* Mutant of RemoveMatching: every item of the cart deleted.
RemoveMatching_WholeCart(its, c, p) == {i \in its : i.cart # c}

\* CartItem.objects.filter(cart=cart, product_id=product_id).delete()
RemoveMatching(its, c, p) == {i \in its : ~(i.cart = c /\ i.product = p)}

\* The cart created when none was found, the delete and the commit.
RemoveWrite(t) ==
    /\ th[t].pc = "rm_write"
    /\ \A i \in items : (i.cart = th[t].cart /\ i.product = th[t].product)
                            => LockFree(t, ItemRow(i.id))
    /\ carts' = IF th[t].cart = 0 THEN Append(carts, NewCart(th[t].user)) ELSE carts
    /\ items' = RemoveMatching(items, th[t].cart, th[t].product)
    /\ Done(t, "remove", "ok", 0)
    /\ UNCHANGED <<address, stock, price, active, nextItem, orders, payments, admin>>

\* ------------------------------------------------- cart.py: remove_cart_item
\* remove_cart_item runs outside any transaction: each of its three
\* statements sees the rows committed when it runs and commits on its own.
\* Cart.objects.get(user=user, status=ACTIVE) raises Cart.DoesNotExist with no
\* such cart and Cart.MultipleObjectsReturned with more than one.
RmItemCart(t, u, id) ==
    /\ Ready(t)
    /\ LET cs == ActiveCartsOf(u)
       IN  IF cs = {} THEN Done(t, "rmitem", "DoesNotExist", 0)
           ELSE IF Cardinality(cs) > 1 THEN Done(t, "rmitem", "MultipleObjectsReturned", 0)
           ELSE Goes(t, [Idle EXCEPT !.op = "rmitem", !.pc = "rmi_get", !.user = u,
                                     !.item = id, !.cart = CHOOSE c \in cs : TRUE])
    /\ UNCHANGED <<db, admin>>

\* get_object_or_404(CartItem, id=item_id, cart=cart)
RmItemGet(t) ==
    /\ th[t].pc = "rmi_get"
    /\ IF ItemExists(th[t].item) /\ ItemById(th[t].item).cart = th[t].cart
       THEN Goes(t, [th[t] EXCEPT !.pc = "rmi_delete"])
       ELSE Done(t, "rmitem", "NotFound", 0)
    /\ UNCHANGED <<db, admin>>

\* item.delete(): the delete of the row with the item's id, which waits for
\* the row's lock.
RmItemDelete(t) ==
    /\ th[t].pc = "rmi_delete"
    /\ LockFree(t, ItemRow(th[t].item))
    /\ items' = DeleteItem(items, th[t].item)
    /\ Done(t, "rmitem", "ok", 0)
    /\ UNCHANGED <<address, stock, price, active, carts, nextItem, orders, payments, admin>>

\* ---------------------------------------- cart.py: update_cart_item_quantity
\* get_object_or_404(CartItem.objects.select_related("cart", "product")
\* .select_for_update(), id, cart__user, cart__status=ACTIVE): one locking
\* query over the item joined to its cart and its product.  FOR UPDATE locks
\* the row of each joined table, in the order of the tables in the query: the
\* item, then the cart, then the product.  The first step finds the row and
\* locks the item.
ItemMatches(u, id) ==
    /\ ItemExists(id)
    /\ carts[ItemById(id).cart].user = u
    /\ carts[ItemById(id).cart].status = "active"

UpdBegin(t, u, id, q) ==
    /\ Ready(t)
    /\ IF ~ItemMatches(u, id)
       THEN Done(t, "update", "NotFound", 0)
       ELSE /\ LockFree(t, ItemRow(id))
            /\ Goes(t, [Idle EXCEPT !.op = "update", !.pc = "upd_cart", !.user = u,
                                    !.item = id, !.qty = q, !.cart = ItemById(id).cart,
                                    !.product = ItemById(id).product,
                                    !.locks = {ItemRow(id)}])
    /\ UNCHANGED <<db, admin>>

\* The lock on the cart's row; a row that no longer matches once the lock is
\* had is dropped from the result, which is then empty.
UpdLockCart(t) ==
    /\ th[t].pc = "upd_cart"
    /\ LockFree(t, CartRow(th[t].cart))
    /\ IF ItemMatches(th[t].user, th[t].item)
       THEN Goes(t, [th[t] EXCEPT !.pc = "upd_finish", !.locks = @ \cup {CartRow(th[t].cart)}])
       ELSE Done(t, "update", "NotFound", 0)
    /\ UNCHANGED <<db, admin>>

\* Mutant of UpdDecide: the check of the stock left out.
UpdDecide_NoStockCheck(p, q) ==
    IF q <= 0 THEN "delete"
    ELSE IF ~active[p] THEN "OutOfStock"
    ELSE "save"

\* Mutant of UpdDecide: a quantity of 0 is saved, not taken as a removal.
UpdDecide_SavesZero(p, q) ==
    IF q < 0 THEN "delete"
    ELSE IF ~active[p] THEN "OutOfStock"
    ELSE IF q > stock[p] THEN "OutOfStock"
    ELSE "save"

\* What the call does with the rows it has locked: the item deleted for a
\* quantity of 0 or less, ValueError (the call's out-of-stock error) for an
\* inactive product or a quantity above the stock, else the quantity saved.
UpdDecide(p, q) ==
    IF q <= 0 THEN "delete"
    ELSE IF ~active[p] THEN "OutOfStock"
    ELSE IF q > stock[p] THEN "OutOfStock"
    ELSE "save"

\* The lock on the product's row, the decision, the write and the commit; the
\* call returns the item (its id) or None (0).
UpdFinish(t) ==
    /\ th[t].pc = "upd_finish"
    /\ LockFree(t, ProductRow(th[t].product))
    /\ LET d == UpdDecide(th[t].product, th[t].qty)
       IN  IF d = "delete"
           THEN /\ items' = DeleteItem(items, th[t].item)
                /\ Done(t, "update", "ok", 0)
           ELSE IF d = "OutOfStock"
           THEN /\ items' = items
                /\ Done(t, "update", "OutOfStock", 0)
           ELSE /\ items' = SetQuantity(items, th[t].item, th[t].qty)
                /\ Done(t, "update", "ok", th[t].item)
    /\ UNCHANGED <<address, stock, price, active, carts, nextItem, orders, payments, admin>>

\* ------------------------------------------------- checkout.py: checkout_cart
\* list(cart.items.select_related("product").all()): the cart's items in the
\* order the database returns them (by id), as [id, product, quantity].
RECURSIVE ItemsFrom(_, _)
ItemsFrom(c, id) ==
    IF id >= nextItem THEN <<>>
    ELSE IF ItemExists(id) /\ ItemById(id).cart = c
         THEN <<[id |-> id, product |-> ItemById(id).product,
                 quantity |-> ItemById(id).quantity]>> \o ItemsFrom(c, id + 1)
         ELSE ItemsFrom(c, id + 1)

CartItemsList(c) == ItemsFrom(c, 1)

SnapProducts(snap) == {snap[i].product : i \in 1..Len(snap)}

\* Mutant of LockedProducts: the query without its is_active=True filter.
LockedProducts_Inactive(snap) == SnapProducts(snap)

\* Product.objects.select_for_update().filter(id__in=product_ids,
\* is_active=True): the rows the query returns, each one locked.
LockedProducts(snap) == {p \in SnapProducts(snap) : active[p]}

\* Address.objects.get(id=address_id, user=user) finds a row.
AddressFound(u, a) == address[a].exists /\ AddressOwner[a] = u

\* Order.from_address: the order's shipping fields, copied from the address
\* row as the call read it.
FromAddress(row) == row.street

\* Steps 1 and 2 of checkout_cart and the load of the items: the address must
\* be the user's, the cart the user's Active one (locked), the cart not empty.
CheckoutResolve(u, c, a) ==
    IF ~AddressFound(u, a) THEN "InvalidCart"
    ELSE IF ~(c <= Len(carts) /\ carts[c].user = u /\ carts[c].status = "active")
         THEN "InvalidCart"
    ELSE IF CartItemsList(c) = <<>> THEN "InvalidCart"
    ELSE "ok"

\* Mutant of CartLockRows: the cart read without select_for_update.
CartLockRows_Unlocked(c) == {}

\* The row lock Cart.objects.select_for_update() takes on the cart.
CartLockRows(c) == {CartRow(c)}

CheckoutBegin(t, u, c, a) ==
    /\ Ready(t)
    /\ LET r == CheckoutResolve(u, c, a)
           found == AddressFound(u, a) /\ c <= Len(carts) /\ carts[c].user = u
                    /\ carts[c].status = "active"
       IN  /\ found => LockFree(t, CartRow(c))
           /\ IF r # "ok"
              THEN Done(t, "checkout", r, 0)
              ELSE /\ RoomForOrder
                   /\ Goes(t, [Idle EXCEPT !.op = "checkout", !.pc = "ck_lock", !.user = u,
                                           !.cart = c, !.addr = a, !.snap = CartItemsList(c),
                                           !.ship = FromAddress(address[a]),
                                           !.locks = CartLockRows(c)])
    /\ UNCHANGED <<db, admin>>

\* The first item of the list whose product has less stock than its quantity,
\* 0 when every item is covered (step 4, on the rows as read under the lock).
RECURSIVE FirstShort(_, _, _)
FirstShort(snap, read, i) ==
    IF i > Len(snap) THEN 0
    ELSE IF read[snap[i].product].stock < snap[i].quantity THEN i
    ELSE FirstShort(snap, read, i + 1)

\* The product rows as the locking query returns them.
ReadProducts(ps) == [p \in ps |-> [stock |-> stock[p], price |-> price[p]]]

\* Mutant of ProductLockRows: the query without select_for_update.
ProductLockRows_Unlocked(ps) == {}

\* The row locks the locking query takes, held to the end of the transaction.
ProductLockRows(ps) == {ProductRow(p) : p \in ps}

\* Mutant of CheckoutValidate: step 4, the stock validation, left out.
CheckoutValidate_NoStockCheck(snap) ==
    IF Cardinality(LockedProducts(snap)) # Cardinality(SnapProducts(snap)) THEN "InvalidCart"
    ELSE "ok"

\* Steps 3 and 4: lock the products, then the two validations.
CheckoutValidate(snap) ==
    IF Cardinality(LockedProducts(snap)) # Cardinality(SnapProducts(snap)) THEN "InvalidCart"
    ELSE IF FirstShort(snap, ReadProducts(LockedProducts(snap)), 1) # 0 THEN "OutOfStock"
    ELSE "ok"

\* Mutant of CheckoutLock: the order row of step 5 is saved before the
\* validations and outside the transaction, so a refusal leaves it behind.
CheckoutLock_SavesOrderFirst(t) ==
    /\ th[t].pc = "ck_lock"
    /\ LET snap == th[t].snap
           ps == LockedProducts(snap)
           r == CheckoutValidate(snap)
       IN  /\ \A p \in ps : LockFree(t, ProductRow(p))
           /\ IF r # "ok"
              THEN /\ Done(t, "checkout", r, 0)
                   /\ orders' = Append(orders, [user |-> th[t].user, status |-> "pending",
                                                total |-> 0, cart |-> th[t].cart,
                                                ship |-> th[t].ship, lines |-> <<>>])
              ELSE /\ Goes(t, [th[t] EXCEPT !.pc = "ck_write", !.read = ReadProducts(ps),
                                            !.locks = @ \cup ProductLockRows(ps)])
                   /\ orders' = orders
    /\ UNCHANGED <<address, stock, price, active, carts, items, nextItem, payments, admin>>

CheckoutLock(t) ==
    /\ th[t].pc = "ck_lock"
    /\ LET snap == th[t].snap
           ps == LockedProducts(snap)
           r == CheckoutValidate(snap)
       IN  /\ \A p \in ps : LockFree(t, ProductRow(p))
           /\ IF r # "ok"
              THEN Done(t, "checkout", r,
                        IF r = "OutOfStock" THEN FirstShort(snap, ReadProducts(ps), 1) ELSE 0)
              ELSE Goes(t, [th[t] EXCEPT !.pc = "ck_write", !.read = ReadProducts(ps),
                                         !.locks = @ \cup ProductLockRows(ps)])
    /\ UNCHANGED <<db, admin>>

\* Step 6: one OrderItem per cart item, at the price of the locked product row.
OrderLines(snap, read) ==
    [i \in 1..Len(snap) |-> [product |-> snap[i].product, quantity |-> snap[i].quantity,
                             unit_price |-> read[snap[i].product].price]]

\* Mutant of OrderTotal: total += unit_price, the quantity forgotten.
RECURSIVE OrderTotal_NoQuantity(_, _, _)
OrderTotal_NoQuantity(snap, read, i) ==
    IF i > Len(snap) THEN 0
    ELSE read[snap[i].product].price + OrderTotal_NoQuantity(snap, read, i + 1)

\* total += unit_price * it.quantity, over the items.
RECURSIVE OrderTotal(_, _, _)
OrderTotal(snap, read, i) ==
    IF i > Len(snap) THEN 0
    ELSE read[snap[i].product].price * snap[i].quantity + OrderTotal(snap, read, i + 1)

\* The quantity the items of the list take of product p.
RECURSIVE Taken(_, _, _)
Taken(snap, p, i) ==
    IF i > Len(snap) THEN 0
    ELSE (IF snap[i].product = p THEN snap[i].quantity ELSE 0) + Taken(snap, p, i + 1)

\* Mutant of StockAfter: p.stock -= 1 for each item, whatever its quantity.
StockAfter_ByOne(snap, read) ==
    [p \in Products |-> IF p \in SnapProducts(snap) THEN read[p].stock - 1 ELSE stock[p]]

\* p.stock -= it.quantity; p.save(update_fields=["stock"]): the stock written
\* is the stock of the row as read under the lock, less the quantities.
StockAfter(snap, read) ==
    [p \in Products |-> IF p \in SnapProducts(snap) THEN read[p].stock - Taken(snap, p, 1)
                        ELSE stock[p]]

\* Mutant of CheckoutWrite: cart.items.all().delete() left out of step 8.
CheckoutWrite_KeepsItems(t) ==
    /\ th[t].pc = "ck_write"
    /\ orders' = Append(orders, [user |-> th[t].user, status |-> "pending",
                                 total |-> OrderTotal(th[t].snap, th[t].read, 1),
                                 cart |-> th[t].cart, ship |-> th[t].ship,
                                 lines |-> OrderLines(th[t].snap, th[t].read)])
    /\ stock' = StockAfter(th[t].snap, th[t].read)
    /\ carts' = [carts EXCEPT ![th[t].cart].status = "converted"]
    /\ Done(t, "checkout", "ok", Len(orders) + 1)
    /\ UNCHANGED <<address, price, active, items, nextItem, payments, admin>>

\* Steps 5 to 8 and the commit: the order with its address snapshot and items,
\* the stock, the total, the cart Converted and its items deleted.
CheckoutWrite(t) ==
    /\ th[t].pc = "ck_write"
    /\ \A i \in ItemsOf(th[t].cart) : LockFree(t, ItemRow(i.id))
    /\ orders' = Append(orders, [user |-> th[t].user, status |-> "pending",
                                 total |-> OrderTotal(th[t].snap, th[t].read, 1),
                                 cart |-> th[t].cart, ship |-> th[t].ship,
                                 lines |-> OrderLines(th[t].snap, th[t].read)])
    /\ stock' = StockAfter(th[t].snap, th[t].read)
    /\ carts' = [carts EXCEPT ![th[t].cart].status = "converted"]
    /\ items' = items \ ItemsOf(th[t].cart)
    /\ Done(t, "checkout", "ok", Len(orders) + 1)
    /\ UNCHANGED <<address, price, active, nextItem, payments, admin>>

\* OrderItem.subtotal, and the sum of an order's subtotals (Order.recalc_total).
Subtotal(line) == line.unit_price * line.quantity

RECURSIVE LinesTotal(_, _)
LinesTotal(lines, i) ==
    IF i > Len(lines) THEN 0 ELSE Subtotal(lines[i]) + LinesTotal(lines, i + 1)

\* ------------------------------------------------ payment.py: simulate_payment
PaymentsOf(o) == {k \in 1..Len(payments) : payments[k].order = o}

\* order.payment, the row of the reverse one-to-one accessor.
PaymentOf(o) == CHOOSE k \in PaymentsOf(o) : TRUE

\* get_object_or_404(Order.objects.select_for_update(), id=order_id, user=user)
OrderFound(u, o) == o <= Len(orders) /\ orders[o].user = u

\* Mutant of OrderLockRows: the order read without select_for_update.
OrderLockRows_Unlocked(o) == {}

\* The row lock Order.objects.select_for_update() takes on the order.
OrderLockRows(o) == {OrderRow(o)}

PayBegin(t, u, o, m) ==
    /\ Ready(t)
    /\ IF ~OrderFound(u, o)
       THEN DonePay(t, m, "NotFound", 0)
       ELSE /\ LockFree(t, OrderRow(o))
            /\ Goes(t, [Idle EXCEPT !.op = "pay", !.pc = "pay_finish", !.user = u, !.order = o,
                                    !.method = m, !.ostatus = orders[o].status,
                                    !.locks = OrderLockRows(o)])
    /\ UNCHANGED <<db, admin>>

\* Mutant of PayDecide: the early return of a Paid payment left out.
PayDecide_NoPaidReturn(o, ostatus) ==
    IF PaymentsOf(o) # {} /\ payments[PaymentOf(o)].status \notin {"pending", "paid"}
    THEN "InvalidState"
    ELSE IF ostatus # "pending" THEN "InvalidState"
    ELSE "create"

\* Mutant of PayDecide: step 3, the check that the order is Pending, left out.
PayDecide_NoOrderCheck(o, ostatus) ==
    IF PaymentsOf(o) # {} /\ payments[PaymentOf(o)].status = "paid" THEN "return"
    ELSE IF PaymentsOf(o) # {} /\ payments[PaymentOf(o)].status # "pending" THEN "InvalidState"
    ELSE "create"

\* Steps 2 and 3 of simulate_payment, on the order as read under the lock:
\* what the call does next.
PayDecide(o, ostatus) ==
    IF PaymentsOf(o) # {} /\ payments[PaymentOf(o)].status = "paid" THEN "return"
    ELSE IF PaymentsOf(o) # {} /\ payments[PaymentOf(o)].status # "pending" THEN "InvalidState"
    ELSE IF ostatus # "pending" THEN "InvalidState"
    ELSE "create"

\* Payment.objects.create(order=order, ...): Payment.order is a OneToOneField,
\* so the insert of a second row for the order raises IntegrityError.
PaymentInsertable(o) == PaymentsOf(o) = {}

\* Mutant of PayCreate: the payment is saved and the order's status is not.
PayCreate_PaymentOnly(o, m) ==
    /\ payments' = Append(payments, [order |-> o, method |-> m, status |-> "paid"])
    /\ orders' = orders

\* Mutant of PayCreate: the order's status is saved and the payment is not.
PayCreate_OrderOnly(o, m) ==
    /\ payments' = payments
    /\ orders' = [orders EXCEPT ![o].status = "paid"]

\* Steps 4 and 5: the Paid payment and the order's status, written together.
PayCreate(o, m) ==
    /\ payments' = Append(payments, [order |-> o, method |-> m, status |-> "paid"])
    /\ orders' = [orders EXCEPT ![o].status = "paid"]

PayFinish(t) ==
    /\ th[t].pc = "pay_finish"
    /\ LET o == th[t].order
           d == PayDecide(o, th[t].ostatus)
       IN  IF d = "return"
           THEN /\ DonePay(t, th[t].method, "ok", PaymentOf(o))
                /\ UNCHANGED <<orders, payments>>
           ELSE IF d = "InvalidState"
           THEN /\ DonePay(t, th[t].method, "InvalidState", 0)
                /\ UNCHANGED <<orders, payments>>
           ELSE IF ~PaymentInsertable(o)
           THEN /\ DonePay(t, th[t].method, "IntegrityError", 0)
                /\ UNCHANGED <<orders, payments>>
           ELSE /\ PayCreate(o, th[t].method)
                /\ DonePay(t, th[t].method, "ok", Len(payments) + 1)
    /\ UNCHANGED <<address, stock, price, active, carts, items, nextItem, admin>>

\* ---------------------------------------------------- admin.py: the admin site
\* Product, Order and Payment are registered with the admin site, which edits
\* their rows outside the services; an edit waits for a row lock like any write.
Unlocked(row) == \A s \in Threads : row \notin th[s].locks

\* Mutant of AdminSetPrice: the order items of the product follow its price.
AdminSetPrice_Reprices(p, v) ==
    /\ admin < MaxAdmin
    /\ v # price[p]
    /\ Unlocked(ProductRow(p))
    /\ price' = [price EXCEPT ![p] = v]
    /\ admin' = admin + 1
    /\ orders' = [o \in 1..Len(orders) |->
                    [orders[o] EXCEPT !.lines =
                        [i \in 1..Len(orders[o].lines) |->
                            IF orders[o].lines[i].product = p
                            THEN [orders[o].lines[i] EXCEPT !.unit_price = v]
                            ELSE orders[o].lines[i]]]]
    /\ UNCHANGED <<address, stock, active, carts, items, nextItem, payments, th, last>>

AdminSetPrice(p, v) ==
    /\ admin < MaxAdmin
    /\ v # price[p]
    /\ Unlocked(ProductRow(p))
    /\ price' = [price EXCEPT ![p] = v]
    /\ admin' = admin + 1
    /\ UNCHANGED <<address, stock, active, carts, items, nextItem, orders, payments, th, last>>

AdminSetActive(p) ==
    /\ admin < MaxAdmin
    /\ Unlocked(ProductRow(p))
    /\ active' = [active EXCEPT ![p] = ~@]
    /\ admin' = admin + 1
    /\ UNCHANGED <<address, stock, price, carts, items, nextItem, orders, payments, th, last>>

AdminSetStock(p, v) ==
    /\ admin < MaxAdmin
    /\ v # stock[p]
    /\ Unlocked(ProductRow(p))
    /\ stock' = [stock EXCEPT ![p] = v]
    /\ admin' = admin + 1
    /\ UNCHANGED <<address, price, active, carts, items, nextItem, orders, payments, th, last>>

AdminSetOrderStatus(o, s) ==
    /\ admin < MaxAdmin
    /\ o <= Len(orders)
    /\ s # orders[o].status
    /\ Unlocked(OrderRow(o))
    /\ orders' = [orders EXCEPT ![o].status = s]
    /\ admin' = admin + 1
    /\ UNCHANGED <<address, stock, price, active, carts, items, nextItem, payments, th, last>>

AdminAddPayment(o, s) ==
    /\ admin < MaxAdmin
    /\ o <= Len(orders)
    /\ PaymentsOf(o) = {}
    /\ Unlocked(OrderRow(o))
    /\ payments' = Append(payments, [order |-> o, method |-> "boleto", status |-> s])
    /\ admin' = admin + 1
    /\ UNCHANGED <<address, stock, price, active, carts, items, nextItem, orders, th, last>>

\* Address is registered with the admin site too: an edit of a saved
\* address's fields.
AdminSetAddress(a, v) ==
    /\ admin < MaxAdmin
    /\ address[a].exists
    /\ v # address[a].street
    /\ address' = [address EXCEPT ![a].street = v]
    /\ admin' = admin + 1
    /\ UNCHANGED <<stock, price, active, carts, items, nextItem, orders, payments, th, last>>

\* ------------------------------------------- views.py: address_delete_view
\* get_object_or_404(Address, id=address_id, user=request.user); addr.delete():
\* a user deletes a saved address.  No order row refers to an address row.
AddressDelete(u, a) ==
    /\ AddressFound(u, a)
    /\ address' = [address EXCEPT ![a].exists = FALSE]
    /\ UNCHANGED <<stock, price, active, carts, items, nextItem, orders, payments, th, last, admin>>

\* ------------------------------------------------------------------ Next
CartNext ==
    \/ \E t \in Threads, u \in Users : GetCartLookup(t, u)
    \/ \E t \in Threads : GetCartCreate(t)
    \/ \E t \in Threads, u \in Users, p \in Products, q \in 0..MaxQty : AddValidate(t, u, p, q)
    \/ \E t \in Threads : AddCart(t)
    \/ \E t \in Threads : AddWrite(t)
    \/ \E t \in Threads, u \in Users, c \in 1..MaxCarts, a \in Addresses : CheckoutBegin(t, u, c, a)
    \/ \E t \in Threads : CheckoutLock(t)
    \/ \E t \in Threads : CheckoutWrite(t)

PayNext ==
    \/ \E t \in Threads, u \in Users, o \in 1..MaxOrders, m \in Methods : PayBegin(t, u, o, m)
    \/ \E t \in Threads : PayFinish(t)

CatalogNext ==
    \/ \E p \in Products, v \in Prices : AdminSetPrice(p, v)
    \/ \E p \in Products : AdminSetActive(p)

OrderAdminNext ==
    \/ \E o \in 1..MaxOrders, s \in OrderStatus : AdminSetOrderStatus(o, s)
    \/ \E o \in 1..MaxOrders, s \in PaymentStatus : AdminAddPayment(o, s)

Next == CartNext \/ PayNext

\* The services alone, from the empty shop.
Spec == Init /\ [][Next]_vars

\* The cart and checkout services, with the catalog edited beside them.
SpecCatalog == Init /\ [][CartNext \/ CatalogNext]_vars

\* The cart calls that add, without checkout, which needs an order's room.
AddNext ==
    \/ \E t \in Threads, u \in Users : GetCartLookup(t, u)
    \/ \E t \in Threads : GetCartCreate(t)
    \/ \E t \in Threads, u \in Users, p \in Products, q \in 0..MaxQty : AddValidate(t, u, p, q)
    \/ \E t \in Threads : AddCart(t)
    \/ \E t \in Threads : AddWrite(t)

\* The edits of a product taken off sale: is_active toggled, the stock zeroed.
SetNext ==
    \/ \E t \in Threads, u \in Users, p \in Products, q \in -1..MaxQty : SetValidate(t, u, p, q)
    \/ \E t \in Threads : SetCart(t)
    \/ \E t \in Threads : SetWrite(t)

RemoveNext ==
    \/ \E t \in Threads, u \in Users, p \in Products : RemoveBegin(t, u, p)
    \/ \E t \in Threads : RemoveWrite(t)

RmItemNext ==
    \/ \E t \in Threads, u \in Users, id \in 1..MaxItems : RmItemCart(t, u, id)
    \/ \E t \in Threads : RmItemGet(t)
    \/ \E t \in Threads : RmItemDelete(t)

UpdateNext ==
    \/ \E t \in Threads, u \in Users, id \in 1..MaxItems, q \in 0..MaxQty : UpdBegin(t, u, id, q)
    \/ \E t \in Threads : UpdLockCart(t)
    \/ \E t \in Threads : UpdFinish(t)

StockAdminNext ==
    \/ \E p \in Products : AdminSetActive(p)
    \/ \E p \in Products : AdminSetStock(p, 0)

\* A shop whose products are all stocked for any quantity a call asks for.
InitStocked ==
    /\ stock = [p \in Products |-> MaxStock]
    /\ price = [p \in Products |-> IF p = "p1" THEN 1000 ELSE 500]
    /\ active = [p \in Products |-> TRUE]
    /\ carts = <<>>
    /\ items = {}
    /\ nextItem = 1
    /\ orders = <<>>
    /\ payments = <<>>
    /\ address = SavedAddresses
    /\ th = [t \in Threads |-> Idle]
    /\ last = [op |-> "none", arg |-> "none", res |-> "none", ret |-> 0]
    /\ admin = 0

\* add_to_cart and get_or_create_active_cart, with the products' stock and
\* is_active edited through the admin site beside them.
SpecAdd == InitStocked /\ [][AddNext \/ StockAdminNext]_vars

\* The shop after u1 has put one unit of each product in a cart: a state Spec
\* reaches (add_to_cart of p1, then of p2, by u1 from Init).
InitCart ==
    /\ stock = [p \in Products |-> IF p = "p1" THEN MaxStock ELSE 1]
    /\ price = [p \in Products |-> IF p = "p1" THEN 1000 ELSE 500]
    /\ active = [p \in Products |-> TRUE]
    /\ carts = <<NewCart("u1")>>
    /\ items = {[id |-> 1, cart |-> 1, product |-> "p1", quantity |-> 1],
                [id |-> 2, cart |-> 1, product |-> "p2", quantity |-> 1]}
    /\ nextItem = 3
    /\ orders = <<>>
    /\ payments = <<>>
    /\ address = SavedAddresses
    /\ th = [t \in Threads |-> Idle]
    /\ last = [op |-> "add", arg |-> "none", res |-> "ok", ret |-> 0]
    /\ admin = 0

\* set_item_quantity on that shop, with the products' is_active edited
\* through the admin site beside it.
SpecSet == InitCart /\ [][SetNext \/ \E p \in Products : AdminSetActive(p)]_vars

\* remove_from_cart on that shop, beside set_item_quantity.
SpecRemove == InitCart /\ [][RemoveNext \/ SetNext]_vars

\* remove_cart_item beside the calls that make carts and items.
SpecItem == Init /\ [][AddNext \/ RmItemNext]_vars

\* update_cart_item_quantity and remove_cart_item on the shop with u1's cart,
\* with the products' is_active edited through the admin site beside them.
SpecUpdate == InitCart /\ [][UpdateNext \/ RmItemNext \/ \E p \in Products : AdminSetActive(p)]_vars

CheckoutNext ==
    \/ \E t \in Threads, u \in Users, c \in 1..MaxCarts, a \in Addresses : CheckoutBegin(t, u, c, a)
    \/ \E t \in Threads : CheckoutLock(t)
    \/ \E t \in Threads : CheckoutWrite(t)

\* checkout_cart and update_cart_item_quantity on the shop with u1's cart.
SpecLocks == InitCart /\ [][CheckoutNext \/ UpdateNext]_vars

\* A shop whose stock covers an item and two more calls' quantities.
InitPlenty ==
    /\ stock = [p \in Products |-> MaxStock + 1]
    /\ price = [p \in Products |-> IF p = "p1" THEN 1000 ELSE 500]
    /\ active = [p \in Products |-> TRUE]
    /\ carts = <<>>
    /\ items = {}
    /\ nextItem = 1
    /\ orders = <<>>
    /\ payments = <<>>
    /\ address = SavedAddresses
    /\ th = [t \in Threads |-> Idle]
    /\ last = [op |-> "none", arg |-> "none", res |-> "none", ret |-> 0]
    /\ admin = 0

\* add_to_cart and get_or_create_active_cart alone, on a catalog left as it is.
SpecAddOnly == InitPlenty /\ [][AddNext]_vars

\* The shop after each user has checked out one cart of one unit of p1: a
\* state Spec reaches (add_to_cart and checkout_cart by u1, then by u2, from
\* Init), with both orders Pending and unpaid.
PlacedOrder(u) ==
    [user |-> u, status |-> "pending", total |-> 1000,
     cart |-> IF u = "u1" THEN 1 ELSE 2, ship |-> "s1",
     lines |-> <<[product |-> "p1", quantity |-> 1, unit_price |-> 1000]>>]

InitPay ==
    /\ stock = [p \in Products |-> IF p = "p1" THEN MaxStock - 2 ELSE 1]
    /\ price = [p \in Products |-> IF p = "p1" THEN 1000 ELSE 500]
    /\ active = [p \in Products |-> TRUE]
    /\ carts = <<[user |-> "u1", status |-> "converted"], [user |-> "u2", status |-> "converted"]>>
    /\ items = {}
    /\ nextItem = 3
    /\ orders = <<PlacedOrder("u1"), PlacedOrder("u2")>>
    /\ payments = <<>>
    /\ address = SavedAddresses
    /\ th = [t \in Threads |-> Idle]
    /\ last = [op |-> "checkout", arg |-> "none", res |-> "ok", ret |-> 2]
    /\ admin = 0

\* The payment service on placed orders, with orders and payments edited
\* through the admin site beside it.
SpecPay == InitPay /\ [][PayNext \/ OrderAdminNext]_vars
\* ================================================================ claims
InCheckout(t) == th[t].pc \in {"ck_lock", "ck_write"}

\* Thread t's call ends in this step.
Ends(t) == th[t].pc # "idle" /\ th'[t].pc = "idle"

\* C1: in every reachable state, whatever the interleaving of cart calls,
\* checkouts and payments, the stock of every product is at least 0.
C1_StockNonNegative == \A p \in Products : stock[p] >= 0

\* C1's case: a product sold down to its last unit, and a checkout refused
\* because the stock no longer covers its cart.
C1_Witness ==
    /\ last.op = "checkout" /\ last.res = "OutOfStock"
    /\ \E p \in Products : stock[p] = 0
    /\ Len(orders) >= 1

\* Two checkouts in flight that share a product: only one is past the lock.
C2_Serialized ==
    \A t \in Threads : \A s \in Threads \ {t} :
        (th[t].pc = "ck_write" /\ InCheckout(s)
            /\ SnapProducts(th[t].snap) \cap SnapProducts(th[s].snap) # {})
        => th[s].pc = "ck_lock"

\* The stock a validated checkout holds is the stock in the database.
C2_ReadIsCurrent ==
    \A t \in Threads : th[t].pc = "ck_write" =>
        \A p \in SnapProducts(th[t].snap) : th[t].read[p].stock = stock[p]

\* The lock taker is refused exactly when the stock, as it is when the lock
\* is taken, does not cover an item.
C2_Decides(t) ==
    (th[t].pc = "ck_lock" /\ th'[t].pc # "ck_lock"
        /\ \A p \in SnapProducts(th[t].snap) : active[p])
    => IF \E i \in 1..Len(th[t].snap) : stock[th[t].snap[i].product] < th[t].snap[i].quantity
       THEN th'[t].pc = "idle" /\ last'.op = "checkout" /\ last'.res = "OutOfStock"
       ELSE th'[t].pc = "ck_write"

\* The checkout that passed validation orders and lowers the stock.
C2_Orders(t) ==
    (th[t].pc = "ck_write" /\ Ends(t))
    => /\ last'.res = "ok"
       /\ Len(orders') = Len(orders) + 1
       /\ \A p \in SnapProducts(th[t].snap) : stock'[p] = stock[p] - Taken(th[t].snap, p, 1)

\* C2: two checkouts by different users that share a product serialize on its
\* lock: they never both hold validated reads of it; a checkout that has
\* passed validation holds the stock that is current in the database; and the
\* checkout that takes the lock decides on the stock as it is then, after any
\* earlier checkout's decrement: OutOfStock if an item exceeds it, and
\* otherwise it goes on to order.  With one unit left and one unit in each
\* cart, the first to lock orders it and the second is refused.
C2_LastUnitRace ==
    /\ [](C2_Serialized /\ C2_ReadIsCurrent)
    /\ [][\A t \in Threads : C2_Decides(t) /\ C2_Orders(t)]_vars

\* C2's case: two users' checkouts on one unit each of a product with one unit
\* left; one holds the product's lock and is about to order, the other waits.
C2_Witness ==
    \E t \in Threads, s \in Threads, p \in Products :
        /\ th[t].pc = "ck_write" /\ th[s].pc = "ck_lock"
        /\ th[t].user # th[s].user
        /\ stock[p] = 1
        /\ Len(th[t].snap) = 1 /\ th[t].snap[1].product = p /\ th[t].snap[1].quantity = 1
        /\ Len(th[s].snap) = 1 /\ th[s].snap[1].product = p /\ th[s].snap[1].quantity = 1

\* C3: in every reachable state each user has at most one Active cart, also
\* after concurrent get_or_create_active_cart calls by a user with no cart.
C3_SingleActiveCart == \A u \in Users : Cardinality(ActiveCartsOf(u)) <= 1

\* Thread t's checkout ends refused, after it had resolved its cart.
C4_Refused(t) == th[t].op = "checkout" /\ Ends(t) /\ last'.res # "ok"

\* A checkout is refused in its first step (address, cart, empty cart).
C4_RefusedAtOnce ==
    th' = th /\ admin' = admin /\ last'.op = "checkout" /\ last'.res # "ok"

\* C4: a checkout that fails (address not the user's; cart missing, not the
\* user's or not Active; cart empty; product inactive; stock short) changes
\* nothing: no stock, no cart and no cart item changes, no order and no order
\* item is created, and a cart that was resolved is still Active.
C4_FailureChangesNothing ==
    [][/\ (C4_RefusedAtOnce \/ \E t \in Threads : C4_Refused(t))
          => UNCHANGED <<stock, price, active, carts, items, nextItem, orders, payments>>
       /\ \A t \in Threads : C4_Refused(t) =>
            /\ carts'[th[t].cart].status = "active"
            /\ \A i \in 1..Len(th[t].snap) :
                 \E it \in items' : /\ it.id = th[t].snap[i].id
                                    /\ it.cart = th[t].cart
                                    /\ it.quantity = th[t].snap[i].quantity]_vars

\* C4's case: a checkout refused for lack of stock after it had locked its
\* cart, with the cart still Active and still holding its item.
C4_Witness ==
    /\ last.op = "checkout" /\ last.res = "OutOfStock"
    /\ \E c \in 1..Len(carts) : \E it \in items :
         /\ carts[c].status = "active" /\ it.cart = c
         /\ stock[it.product] < it.quantity

\* Every order's total is the sum of its items' subtotals.
C5_TotalIsSum ==
    \A o \in 1..Len(orders) : orders[o].total = LinesTotal(orders[o].lines, 1)

\* The order thread t's checkout commits: its items, prices and total.
C5_Created(t) ==
    (th[t].pc = "ck_write" /\ Ends(t)) =>
        /\ Len(orders') = Len(orders) + 1
        /\ LET o == orders'[Len(orders')]
               snap == th[t].snap
           IN  /\ Len(o.lines) = Len(snap)
               /\ \A i \in 1..Len(snap) :
                    /\ o.lines[i].product = snap[i].product
                    /\ o.lines[i].quantity = snap[i].quantity
                    /\ o.lines[i].unit_price = price[snap[i].product]
               /\ o.total = LinesTotal(o.lines, 1)

\* C5: the order a successful checkout creates has one item per cart item the
\* checkout loaded, with its product and quantity, at the product's price in
\* the database while the checkout holds the product's lock, and its total is
\* the sum of unit_price x quantity over its items; every order's total is the
\* sum of its items' subtotals.
C5_TotalCorrect == []C5_TotalIsSum /\ [][\A t \in Threads : C5_Created(t)]_vars

\* C5's case: the order of 2 x 10.00 and 1 x 5.00, with total 25.00.
C5_Witness ==
    \E o \in 1..Len(orders) :
        /\ orders[o].total = 2500
        /\ Len(orders[o].lines) = 2
        /\ \E i \in 1..2 : orders[o].lines[i].quantity = 2 /\ orders[o].lines[i].unit_price = 1000

\* The step that commits thread t's checkout.
C6_Step(t) ==
    (th[t].pc = "ck_write" /\ Ends(t)) =>
        /\ last'.op = "checkout" /\ last'.res = "ok" /\ last'.ret = Len(orders) + 1
        /\ Len(orders') = Len(orders) + 1
        /\ orders'[last'.ret].status = "pending"
        /\ orders'[last'.ret].user = th[t].user
        /\ \A o \in 1..Len(orders) : orders'[o] = orders[o]
        /\ carts'[th[t].cart].status = "converted"
        /\ \A it \in items' : it.cart # th[t].cart
        /\ \A i \in 1..Len(th[t].snap) :
             stock'[th[t].snap[i].product] = stock[th[t].snap[i].product] - th[t].snap[i].quantity
        /\ \A p \in Products \ SnapProducts(th[t].snap) : stock'[p] = stock[p]

\* C6: a successful checkout returns a new order that is Pending and the
\* user's, leaves the cart Converted with no items, lowers the stock of each
\* product in the cart by the cart item's quantity and leaves every other
\* product's stock as it was.
C6_CheckoutEffect == [][\A t \in Threads : C6_Step(t)]_vars

\* C6's case: the cart of 2 of p1 (stock 2) and 1 of p2 (stock 1) checked out:
\* both sold out, the cart Converted and empty, the order Pending.
C6_Witness ==
    /\ last.op = "checkout" /\ last.res = "ok"
    /\ Len(orders) = 1 /\ orders[1].status = "pending" /\ Len(orders[1].lines) = 2
    /\ stock["p1"] = MaxStock - 2 /\ stock["p2"] = 0
    /\ carts[orders[1].cart].status = "converted"
    /\ items = {}

\* The order's payments that are Paid.
PaidPaymentsOf(o) == {k \in PaymentsOf(o) : payments[k].status = "paid"}

\* The step that ends thread t's call on an order with a Paid payment.
C7_Step(t) ==
    (th[t].pc = "pay_finish" /\ Ends(t) /\ PaidPaymentsOf(th[t].order) # {}) =>
        /\ last'.op = "pay" /\ last'.res = "ok"
        /\ last'.ret \in PaidPaymentsOf(th[t].order)
        /\ payments' = payments
        /\ orders' = orders

\* C7: simulate_payment by the owner of an order that has a Paid payment
\* returns that payment, whatever the method asked for and the order's status,
\* and changes no payment and no order.
C7_PaidIsIdempotent == [][\A t \in Threads : C7_Step(t)]_vars

\* C7's case: a call has returned a Paid payment made by another method than
\* the one it asked for, so a payment that existed before the call.
C7_Witness ==
    /\ last.op = "pay" /\ last.res = "ok"
    /\ last.ret \in 1..Len(payments)
    /\ payments[last.ret].status = "paid"
    /\ payments[last.ret].method # last.arg
    /\ Cardinality(PaymentsOf(payments[last.ret].order)) = 1

\* An order is Paid exactly when it has a Paid payment.
C8_PaidTogether ==
    \A o \in 1..Len(orders) : (orders[o].status = "paid") <=> (PaidPaymentsOf(o) # {})

\* The step that ends thread t's call on a Pending order with no payment.
C8_Step(t) ==
    (th[t].pc = "pay_finish" /\ Ends(t)
        /\ orders[th[t].order].status = "pending" /\ PaymentsOf(th[t].order) = {}) =>
        /\ last'.op = "pay" /\ last'.res = "ok" /\ last'.ret = Len(payments) + 1
        /\ payments' = Append(payments, [order |-> th[t].order, method |-> th[t].method,
                                         status |-> "paid"])
        /\ orders'[th[t].order].status = "paid"

\* C8: simulate_payment by the owner of a Pending order with no payment
\* creates one Payment, Paid and of the method asked for, and sets the order
\* Paid in the same step; with the services alone, no state has an order Paid
\* without a Paid payment or a Paid payment with its order not Paid.
C8_AtomicPayment == []C8_PaidTogether /\ [][\A t \in Threads : C8_Step(t)]_vars

\* C8's case: an order paid by a call, with the payment that call created.
C8_Witness ==
    /\ last.op = "pay" /\ last.res = "ok"
    /\ last.ret \in 1..Len(payments)
    /\ payments[last.ret].method = last.arg
    /\ payments[last.ret].status = "paid"
    /\ orders[payments[last.ret].order].status = "paid"

\* The step that ends thread t's call on a Pending order with a Pending payment.
C9_Step(t) ==
    (th[t].pc = "pay_finish" /\ Ends(t)
        /\ orders[th[t].order].status = "pending"
        /\ \E k \in PaymentsOf(th[t].order) : payments[k].status = "pending") =>
        /\ last'.res = "ok"
        /\ orders'[th[t].order].status = "paid"
        /\ Cardinality({k \in 1..Len(payments') : payments'[k].order = th[t].order}) = 1
        /\ \A k \in 1..Len(payments') :
             payments'[k].order = th[t].order => payments'[k].status = "paid"

\* C9: simulate_payment by the owner of a Pending order whose payment exists
\* with status Pending does not fail: it ends with the order Paid and with
\* exactly one Payment for the order, which is Paid.
C9_PendingPaymentIsPaid == [][\A t \in Threads : C9_Step(t)]_vars

\* The step that ends thread t's call in one of the two refused cases.
C10_Step(t) ==
    (th[t].pc = "pay_finish" /\ Ends(t)
        /\ \/ \E k \in PaymentsOf(th[t].order) : payments[k].status \in {"failed", "refunded"}
           \/ PaidPaymentsOf(th[t].order) = {} /\ orders[th[t].order].status # "pending") =>
        /\ last'.op = "pay" /\ last'.res = "InvalidState"
        /\ payments' = payments
        /\ orders' = orders

\* C10: simulate_payment by the owner of an order fails with InvalidState and
\* changes no payment and no order when the order's payment is Failed or
\* Refunded, and when the order has no Paid payment and is not Pending.
C10_InvalidState == [][\A t \in Threads : C10_Step(t)]_vars

\* C10's case: a call refused with InvalidState, on a Pending order whose
\* payment is Failed or Refunded or on an order that is not Pending.
C10_Witness ==
    /\ last.op = "pay" /\ last.res = "InvalidState"
    /\ \E k \in 1..Len(payments) :
         payments[k].status \in {"failed", "refunded"} /\ orders[payments[k].order].status = "pending"
    /\ \E o \in 1..Len(orders) : orders[o].status = "shipped" /\ PaymentsOf(o) = {}
\* Two calls in flight on one order: never, the second waits for the lock.
C11_Serialized ==
    \A t \in Threads : \A s \in Threads \ {t} :
        (th[t].pc = "pay_finish" /\ th[s].pc = "pay_finish") => th[t].order # th[s].order

\* Every order has at most one Payment.
C11_AtMostOnePayment == \A o \in 1..Len(orders) : Cardinality(PaymentsOf(o)) <= 1

\* The step that ends thread t's call on its user's order: it returns the
\* order's only payment, which is Paid, and a payment is created only when the
\* order had none.
C11_Step(t) ==
    (th[t].pc = "pay_finish" /\ Ends(t))
    => /\ last'.op = "pay" /\ last'.res = "ok"
       /\ {k \in 1..Len(payments') : payments'[k].order = th[t].order} = {last'.ret}
       /\ payments'[last'.ret].status = "paid"
       /\ PaymentsOf(th[t].order) # {} => payments' = payments

\* C11: every order has at most one Payment; simulate_payment calls that run
\* concurrently on one Pending order serialize on the order's row lock, one
\* Payment is created, and every call returns that same Paid payment.
C11_OnePaymentPerOrder ==
    /\ [](C11_AtMostOnePayment /\ C11_Serialized)
    /\ [][\A t \in Threads : C11_Step(t)]_vars

\* C11's case: a call has created the order's payment and returned it, and a
\* second call on the same order, asking for another method, holds the lock
\* it waited for and is about to return.
C11_Witness ==
    \E t \in Threads :
        /\ last.op = "pay" /\ last.res = "ok" /\ last.ret # 0
        /\ th[t].pc = "pay_finish"
        /\ th[t].order = payments[last.ret].order
        /\ th[t].method # payments[last.ret].method
        /\ th[t].ostatus = "paid"
        /\ Len(payments) = 1
\* The quantity of the item thread t's add_to_cart finds in the user's cart
\* for its product, 0 when there is none.
C12_Existing(t) ==
    LET c == LatestActiveCart(th[t].user)
    IN  IF c # 0 /\ ItemIdOf(c, th[t].product) # 0
        THEN ItemById(ItemIdOf(c, th[t].product)).quantity
        ELSE 0

\* A call that starts: InvalidQuantity for a quantity of 0 or less, else
\* ProductUnavailable for an inactive product or a stock below the quantity,
\* with nothing written; else the call goes on to the cart.
C12_Start ==
    ((th' = th /\ admin' = admin /\ last'.op = "add")
        \/ \E t \in Threads : th[t].pc = "idle" /\ th'[t].pc = "add_cart")
    => \A t \in Threads, u \in Users, p \in Products, q \in 0..MaxQty :
          AddValidate(t, u, p, q) =>
              IF q <= 0
              THEN th'[t].pc = "idle" /\ last'.res = "InvalidQuantity" /\ db' = db
              ELSE IF ~active[p] \/ stock[p] < q
              THEN th'[t].pc = "idle" /\ last'.res = "ProductUnavailable" /\ db' = db
              ELSE th'[t].pc = "add_cart"

\* A call that fails writes nothing.
C12_FailureChangesNothing ==
    /\ \A t \in Threads :
           (th[t].op = "add" /\ Ends(t) /\ last'.res # "ok") => db' = db
    /\ (th' = th /\ admin' = admin /\ last'.op = "add") => db' = db

\* The check of the existing item, against the stock as it is when the check
\* is made.
C12_RecheckOnCurrentStock(t) ==
    (th[t].pc = "add_cart" /\ th'[t].pc # "add_cart"
        /\ C12_Existing(t) + th[t].qty > stock[th[t].product])
    => th'[t].pc = "idle" /\ last'.res = "ProductUnavailable" /\ db' = db

\* The check of the existing item, against the stock the call read when it
\* looked the product up.
C12_RecheckOnStockRead(t) ==
    (th[t].pc = "add_cart" /\ th'[t].pc # "add_cart")
    => IF C12_Existing(t) + th[t].qty > th[t].seen
       THEN th'[t].pc = "idle" /\ last'.res = "ProductUnavailable" /\ db' = db
       ELSE th'[t].pc = "add_write"

\* C12 as stated: add_item fails with InvalidQuantity when quantity <= 0 and
\* with ProductUnavailable when the product is inactive or when the item's
\* quantity plus the quantity asked for exceeds the product's stock at that
\* moment; a failure leaves carts and cart items as they were.
C12_AsStated ==
    [][C12_Start /\ C12_FailureChangesNothing
        /\ \A t \in Threads : C12_RecheckOnCurrentStock(t)]_vars

\* C12: add_item fails with InvalidQuantity when quantity <= 0 and with
\* ProductUnavailable when the product is inactive or when the item's quantity
\* plus the quantity asked for exceeds the stock the call read when it looked
\* the product up; a failure leaves carts and cart items as they were.
C12_AddFailures ==
    [][C12_Start /\ C12_FailureChangesNothing
        /\ \A t \in Threads : C12_RecheckOnStockRead(t)]_vars

\* C12's case: with no edit of the catalog, every product active and its
\* stock covering any quantity asked for, an add_item has failed with
\* ProductUnavailable: the cart's item is what made it too much, and the item
\* is still there.
C12_Witness ==
    /\ admin = 0
    /\ \A p \in Products : active[p] /\ stock[p] >= MaxQty
    /\ last.op = "add" /\ last.res = "ProductUnavailable"
    /\ \E i \in items : i.quantity >= 1
\* A cart has at most one item for a product (uniq_cart_product).
C13_OneItemPerProduct ==
    \A i \in items : \A j \in items : (i.cart = j.cart /\ i.product = j.product) => i.id = j.id

\* Two add_item calls on one cart: only one is past the cart's lock.
C13_Serialized ==
    \A t \in Threads : \A s \in Threads \ {t} :
        (th[t].pc = "add_write" /\ th[s].pc = "add_write" /\ th[t].cart # 0)
        => th[t].cart # th[s].cart

\* The step that commits thread t's add_item: the item it found has the
\* quantity asked for added to the quantity it has in the database, and when
\* the cart had no item for the product one item of that quantity is created;
\* no other item changes.
C13_Step(t) ==
    (th[t].pc = "add_write" /\ Ends(t))
    => IF th[t].item # 0
       THEN /\ ItemExists(th[t].item)
            /\ ItemById(th[t].item).cart = th[t].cart
            /\ ItemById(th[t].item).product = th[t].product
            /\ items' = (items \ {ItemById(th[t].item)})
                            \cup {[ItemById(th[t].item) EXCEPT
                                     !.quantity = ItemById(th[t].item).quantity + th[t].qty]}
       ELSE /\ th[t].cart # 0 => ItemIdOf(th[t].cart, th[t].product) = 0
            /\ \E i \in items' \ items :
                   /\ items' = items \cup {i}
                   /\ i.product = th[t].product /\ i.quantity = th[t].qty
                   /\ i.cart = IF th[t].cart = 0 THEN Len(carts') ELSE th[t].cart

\* C13: add_item adds to an existing item's quantity atomically: calls on one
\* cart serialize on the cart's lock and each adds its quantity to the
\* quantity the item has when it writes, so that none is lost; a cart never
\* has two items for one product; with no item for the product, one item of
\* the added quantity is created.
C13_NoLostUpdate ==
    /\ [](C13_OneItemPerProduct /\ C13_Serialized)
    /\ [][\A t \in Threads : C13_Step(t)]_vars

\* C13's case: two add_item calls by one user for one product whose item
\* exists; one holds the cart's lock and is about to add to the item, the
\* other has validated and waits for the lock, and the stock covers both.
C13_Witness ==
    \E t \in Threads, s \in Threads :
        /\ th[t].pc = "add_write" /\ th[t].item # 0
        /\ th[s].pc = "add_cart"
        /\ th[s].user = th[t].user /\ th[s].product = th[t].product
        /\ ItemById(th[t].item).quantity + th[t].qty + th[s].qty <= th[s].seen
        /\ th[s].seen = stock[th[s].product]
\* A set_item_quantity call with quantity 0 gets past its validations.
C14_Accepted ==
    ((th' = th /\ admin' = admin /\ last'.op = "set")
        \/ \E t \in Threads : th[t].pc = "idle" /\ th'[t].pc = "set_cart")
    => \A t \in Threads, u \in Users, p \in Products :
          SetValidate(t, u, p, 0) => th'[t].pc = "set_cart"

\* The call then ends without error, and the cart has no item for the product.
C14_Removes(t) ==
    /\ (th[t].pc = "set_cart" /\ th[t].qty = 0 /\ th'[t].pc # "set_cart")
       => th'[t].pc = "set_write"
    /\ (th[t].pc = "set_write" /\ th[t].qty = 0 /\ Ends(t))
       => /\ last'.op = "set" /\ last'.res = "ok"
          /\ items' = RemoveMatching(items, th[t].cart, th[t].product)

\* C14: set_item_quantity(user, product, 0) removes the product's item from
\* the user's active cart, and with no such item it is a no-op that returns
\* the cart without error, whatever the product's stock and is_active are.
C14_SetZeroRemoves == [][C14_Accepted /\ \A t \in Threads : C14_Removes(t)]_vars
\* The step that ends thread t's remove_item: no error, the cart's item for
\* the product is gone, and every other item is as it was.
C15_Step(t) ==
    (th[t].pc = "rm_write" /\ Ends(t))
    => /\ last'.op = "remove" /\ last'.res = "ok"
       /\ items' = {i \in items : ~(i.cart = th[t].cart /\ i.product = th[t].product)}
       /\ (\A i \in items : ~(i.cart = th[t].cart /\ i.product = th[t].product))
              => items' = items

\* C15: remove_item by product id deletes the matching item of the user's
\* active cart if there is one and raises no error if there is none, so that
\* a second application leaves the items as the first left them; it changes
\* no other item.
C15_RemoveIdempotent ==
    [][/\ \A t \in Threads : C15_Step(t)
       /\ \A t \in Threads : (th[t].pc = "idle" /\ th'[t].op = "remove")
                                   => th'[t].pc = "rm_write"]_vars

\* C15's case: u1's item of p1 has been removed, and a second remove_item of
\* p1 by u1 is about to end with nothing to delete and the item of p2 in place.
C15_Witness ==
    \E t \in Threads :
        /\ last.op = "remove" /\ last.res = "ok"
        /\ th[t].pc = "rm_write" /\ th[t].cart = 1 /\ th[t].product = "p1"
        /\ ItemIdOf(1, "p1") = 0
        /\ ItemIdOf(1, "p2") # 0
\* A remove_item_by_id call that starts: for an item of an Active cart of the
\* user it goes on, and if it fails at once it fails with NotFound and
\* deletes nothing.
C16_Start ==
    ((th' = th /\ admin' = admin /\ last'.op = "rmitem")
        \/ \E t \in Threads : th[t].pc = "idle" /\ th'[t].pc = "rmi_get")
    => \A t \in Threads, u \in Users, id \in 1..MaxItems :
          RmItemCart(t, u, id) =>
              /\ ItemMatches(u, id) => th'[t].pc = "rmi_get"
              /\ th'[t].pc = "idle" => (last'.res = "NotFound" /\ db' = db)

\* The lookup of the item: NotFound, with nothing deleted, unless the item is
\* in the user's Active cart.
C16_Get(t) ==
    (th[t].pc = "rmi_get" /\ th'[t].pc # "rmi_get")
    => IF ItemMatches(th[t].user, th[t].item)
       THEN th'[t].pc = "rmi_delete"
       ELSE th'[t].pc = "idle" /\ last'.res = "NotFound" /\ db' = db

\* The delete: exactly that item.
C16_Delete(t) ==
    (th[t].pc = "rmi_delete" /\ Ends(t))
    => /\ last'.op = "rmitem" /\ last'.res = "ok"
       /\ items' = {i \in items : i.id # th[t].item}

\* C16: remove_item_by_id fails with NotFound, deleting nothing, whenever the
\* item is not an item of the user's Active cart (no such item, another
\* user's item, no Active cart); otherwise it deletes exactly that item.
C16_RemoveById == [][C16_Start /\ \A t \in Threads : C16_Get(t) /\ C16_Delete(t)]_vars
\* A call on an item of the user's Active cart goes on to the locks, and the
\* item it holds the lock of stays in place.
C17_Proceeds(t) ==
    /\ (th[t].pc = "idle" /\ th' = th /\ admin' = admin /\ last'.op = "update")
       => \A u \in Users, id \in 1..MaxItems, q \in 0..MaxQty :
             UpdBegin(t, u, id, q) => ~ItemMatches(u, id)
    /\ (th[t].pc = "upd_cart" /\ th'[t].pc # "upd_cart") => th'[t].pc = "upd_finish"

\* The step that ends thread t's call: the item deleted and None returned for
\* a quantity of 0 or less; OutOfStock and the item as it was for an inactive
\* product or a quantity above the stock; else the item's quantity set to the
\* quantity asked for and the item returned.  No other item changes.
C17_Step(t) ==
    (th[t].pc = "upd_finish" /\ Ends(t))
    => /\ ItemExists(th[t].item)
       /\ last'.op = "update"
       /\ LET it == ItemById(th[t].item)
              q == th[t].qty
          IN  IF q <= 0
              THEN last'.res = "ok" /\ last'.ret = 0 /\ items' = items \ {it}
              ELSE IF ~active[it.product] \/ q > stock[it.product]
              THEN last'.res = "OutOfStock" /\ items' = items
              ELSE /\ last'.res = "ok" /\ last'.ret = it.id
                   /\ items' = (items \ {it}) \cup {[it EXCEPT !.quantity = q]}

\* C17: update_item_quantity on an item of the user's Active cart deletes the
\* item and returns none for a quantity of 0 or less; fails with OutOfStock,
\* the quantity unchanged, for a quantity above 0 when the product is
\* inactive or has less stock; and otherwise sets the item's quantity to
\* exactly the quantity asked for and returns the item.
C17_UpdateQuantity == [][\A t \in Threads : C17_Proceeds(t) /\ C17_Step(t)]_vars

\* C17's case: an update has set an item's quantity, which was 1, to 2 and
\* returned the item.
C17_Witness ==
    /\ last.op = "update" /\ last.res = "ok" /\ last.ret # 0
    /\ ItemExists(last.ret)
    /\ ItemById(last.ret).quantity = 2
\* The first checks, on any arguments: InvalidCart when the address is not
\* the user's, else when the cart is not the user's Active cart, else when the
\* cart has no items; else the call goes on to the products.
C18_Resolves ==
    \A u \in Users, c \in 1..MaxCarts, a \in Addresses :
        CheckoutResolve(u, c, a) =
            IF \/ AddressOwner[a] # u
               \/ c > Len(carts)
               \/ carts[c].user # u
               \/ carts[c].status # "active"
               \/ ItemsOf(c) = {}
            THEN "InvalidCart"
            ELSE "ok"

\* A checkout that starts goes on exactly when the first checks pass, and
\* one that fails at once fails with InvalidCart.
C18_Start ==
    /\ \A t \in Threads :
           (th[t].pc = "idle" /\ th'[t].pc = "ck_lock")
           => /\ AddressOwner[th'[t].addr] = th'[t].user
              /\ th'[t].cart <= Len(carts)
              /\ carts[th'[t].cart].user = th'[t].user
              /\ carts[th'[t].cart].status = "active"
              /\ ItemsOf(th'[t].cart) # {}
    /\ (th' = th /\ admin' = admin /\ last'.op = "checkout")
       => last'.res = "InvalidCart"

\* The items of thread t's checkout that the stock does not cover.
C18_Short(t) ==
    {i \in 1..Len(th[t].snap) : stock[th[t].snap[i].product] < th[t].snap[i].quantity}

\* The products: InvalidCart if one is inactive, whatever the stock; else
\* OutOfStock naming the first item the stock does not cover; else the
\* checkout goes on to write the order, and succeeds.
C18_Products(t) ==
    /\ (th[t].pc = "ck_lock" /\ th'[t].pc # "ck_lock")
       => IF \E i \in 1..Len(th[t].snap) : ~active[th[t].snap[i].product]
          THEN th'[t].pc = "idle" /\ last'.op = "checkout" /\ last'.res = "InvalidCart"
          ELSE IF C18_Short(t) # {}
          THEN /\ th'[t].pc = "idle" /\ last'.op = "checkout" /\ last'.res = "OutOfStock"
               /\ last'.ret \in C18_Short(t)
               /\ \A i \in C18_Short(t) : last'.ret <= i
          ELSE th'[t].pc = "ck_write"
    /\ (th[t].pc = "ck_write" /\ Ends(t)) => (last'.op = "checkout" /\ last'.res = "ok")

\* C18: checkout's outcome is decided in this order: InvalidCart if the
\* address is not the user's; else InvalidCart if the cart is missing, not the
\* user's or not Active; else InvalidCart if it has no items; else InvalidCart
\* if a product is inactive, also when another item is out of stock; else
\* OutOfStock naming the first item whose product's stock is below its
\* quantity; else success.
C18_OutcomeOrder ==
    /\ []C18_Resolves
    /\ [][C18_Start /\ \A t \in Threads : C18_Products(t)]_vars

\* C18's case: a checkout holds its cart and is about to look at the
\* products, one of which is inactive while another item is out of stock.
C18_Witness ==
    \E t \in Threads :
        /\ th[t].pc = "ck_lock"
        /\ \E i \in 1..Len(th[t].snap) : ~active[th[t].snap[i].product]
        /\ \E i \in 1..Len(th[t].snap) :
               /\ active[th[t].snap[i].product]
               /\ stock[th[t].snap[i].product] < th[t].snap[i].quantity
\* A cart's status changes only from Active to Converted, in the step that
\* commits a checkout of that cart and creates its order.
C19_Transition ==
    \A c \in 1..Len(carts) :
        carts'[c].status # carts[c].status
        => /\ carts[c].status = "active" /\ carts'[c].status = "converted"
           /\ \E t \in Threads : th[t].pc = "ck_write" /\ th[t].cart = c /\ Ends(t)
           /\ last'.op = "checkout" /\ last'.res = "ok"
           /\ Len(orders') = Len(orders) + 1
           /\ orders'[Len(orders')].cart = c

\* Rows are never removed from the cart table, and a new cart is Active.
C19_CartsKept ==
    /\ Len(carts') >= Len(carts)
    /\ \A c \in (Len(carts) + 1)..Len(carts') : carts'[c].status = "active"

\* Every item is in an Active cart; a cart has at most one order, and has
\* one exactly when it is Converted.
C19_Converted ==
    /\ \A i \in items : carts[i.cart].status = "active"
    /\ \A o \in 1..Len(orders) : \A k \in 1..Len(orders) :
           orders[o].cart = orders[k].cart => o = k
    /\ \A c \in 1..Len(carts) :
           carts[c].status = "converted" <=> \E o \in 1..Len(orders) : orders[o].cart = c

\* Two checkouts of one cart are never both past the cart's lock, and the
\* cart a call holds the lock of is Active.
C19_Serialized ==
    /\ \A t \in Threads : \A s \in Threads \ {t} :
           (InCheckout(t) /\ InCheckout(s)) => th[t].cart # th[s].cart
    /\ \A t \in Threads :
           (th[t].pc \in {"ck_lock", "ck_write", "add_write"} /\ th[t].cart # 0)
           => carts[th[t].cart].status = "active"

\* C19: a cart's status changes only from Active to Converted, once, by a
\* successful checkout; a Converted cart is never Active again and gets no
\* new items.  Checkouts of one cart serialize on its lock, so one succeeds
\* and creates the cart's one order, and the other, finding the cart
\* Converted, fails with InvalidCart; the user's later cart calls act on a new
\* Active cart.
C19_CartLifecycle ==
    /\ [](C19_Converted /\ C19_Serialized)
    /\ [][C19_Transition /\ C19_CartsKept]_vars

\* C19's case: a user's cart has been checked out, a checkout has since
\* failed with InvalidCart, and the user has a new Active cart with an item.
C19_Witness ==
    \E u \in Users, c \in 1..Len(carts), d \in 1..Len(carts) :
        /\ c < d
        /\ carts[c].user = u /\ carts[c].status = "converted"
        /\ carts[d].user = u /\ carts[d].status = "active"
        /\ ItemsOf(d) # {}
        /\ last.op = "checkout" /\ last.res = "InvalidCart"
\* The rows whose locks thread t's next step waits for.
C20_Wants(t) ==
    IF th[t].pc \in {"upd_cart"} THEN {CartRow(th[t].cart)}
    ELSE IF th[t].pc = "upd_finish" THEN {ProductRow(th[t].product)}
    ELSE IF th[t].pc = "ck_lock" THEN {ProductRow(p) : p \in LockedProducts(th[t].snap)}
    ELSE IF th[t].pc = "ck_write" THEN {ItemRow(i.id) : i \in ItemsOf(th[t].cart)}
    ELSE {}

\* Thread t waits for a lock that thread s holds.
C20_WaitsFor(t, s) == C20_Wants(t) \cap th[s].locks # {}

\* C20: lock acquisition never deadlocks: no two calls in flight each wait
\* for a row lock the other holds, also when a cart item is updated while its
\* cart is checked out.
C20_NoDeadlock ==
    \A t \in Threads : \A s \in Threads \ {t} : ~(C20_WaitsFor(t, s) /\ C20_WaitsFor(s, t))
\* ---------------------------------------------------------------- C21
AddressNext ==
    \/ \E a \in Addresses, v \in Streets : AdminSetAddress(a, v)
    \/ \E u \in Users, a \in Addresses : AddressDelete(u, a)

\* The shop after u1 has ordered one unit of p1 and then put one unit of each
\* product in a new cart: a state the services reach from Init (add_to_cart
\* and checkout_cart, then add_to_cart twice, all by u1).
InitOrdered ==
    /\ stock = [p \in Products |-> IF p = "p1" THEN MaxStock - 1 ELSE 1]
    /\ price = [p \in Products |-> IF p = "p1" THEN 1000 ELSE 500]
    /\ active = [p \in Products |-> TRUE]
    /\ carts = <<[user |-> "u1", status |-> "converted"], NewCart("u1")>>
    /\ items = {[id |-> 2, cart |-> 2, product |-> "p1", quantity |-> 1],
                [id |-> 3, cart |-> 2, product |-> "p2", quantity |-> 1]}
    /\ nextItem = 4
    /\ orders = <<PlacedOrder("u1")>>
    /\ payments = <<>>
    /\ address = SavedAddresses
    /\ th = [t \in Threads |-> Idle]
    /\ last = [op |-> "add", arg |-> "none", res |-> "ok", ret |-> 0]
    /\ admin = 0

\* Checkout and payment on that shop, with the cart's items changed, prices
\* edited and addresses edited and deleted beside them.
SpecSnapshot ==
    InitOrdered /\ [][CheckoutNext \/ PayNext \/ RemoveNext \/ AddressNext
                      \/ \E p \in Products, v \in Prices : AdminSetPrice(p, v)]_vars

\* An order that exists keeps its items (product, quantity, unit_price), its
\* total and its shipping fields.
C21_Kept ==
    \A o \in 1..Len(orders) :
        /\ o <= Len(orders')
        /\ orders'[o].lines = orders[o].lines
        /\ orders'[o].total = orders[o].total
        /\ orders'[o].ship = orders[o].ship

\* C21: once a checkout has completed, no later step (a change of a
\* product's price, a change or the deletion of the address used, a cart
\* call, another checkout, a payment) changes an existing order's items'
\* unit_price and quantity, its total or its shipping fields.
C21_SnapshotImmutable == [][C21_Kept]_vars

\* C21's case: a paid order, with a later order beside it, whose item's
\* price is no longer the product's price and whose address was edited and
\* then deleted.
C21_Witness ==
    /\ Len(orders) = 2
    /\ orders[1].status = "paid"
    /\ orders[1].lines[1].unit_price # price[orders[1].lines[1].product]
    /\ orders[1].total = LinesTotal(orders[1].lines, 1)
    /\ ~address["a1"].exists
    /\ address["a1"].street # orders[1].ship
\* ---------------------------------------------------------------- C22
\* Every call of the services, made by u1 in two request threads at once.
ShopNext ==
    \/ \E t \in Threads, p \in Products, q \in 0..MaxQty : AddValidate(t, "u1", p, q)
    \/ \E t \in Threads : AddCart(t)
    \/ \E t \in Threads : AddWrite(t)
    \/ \E t \in Threads, p \in Products, q \in -1..MaxQty : SetValidate(t, "u1", p, q)
    \/ \E t \in Threads : SetCart(t)
    \/ \E t \in Threads : SetWrite(t)
    \/ \E t \in Threads, p \in Products : RemoveBegin(t, "u1", p)
    \/ \E t \in Threads : RemoveWrite(t)
    \/ \E t \in Threads, id \in 1..MaxItems : RmItemCart(t, "u1", id)
    \/ \E t \in Threads : RmItemGet(t)
    \/ \E t \in Threads : RmItemDelete(t)
    \/ \E t \in Threads, id \in 1..MaxItems, q \in 0..MaxQty : UpdBegin(t, "u1", id, q)
    \/ \E t \in Threads : UpdLockCart(t)
    \/ \E t \in Threads : UpdFinish(t)
    \/ \E t \in Threads, c \in 1..MaxCarts : CheckoutBegin(t, "u1", c, "a1")
    \/ \E t \in Threads : CheckoutLock(t)
    \/ \E t \in Threads : CheckoutWrite(t)
    \/ \E t \in Threads, o \in 1..MaxOrders : PayBegin(t, "u1", o, "pix")
    \/ \E t \in Threads : PayFinish(t)

\* The cart calls, checkout and payment together on the shop with u1's cart.
SpecShop == InitCart /\ [][ShopNext]_vars

\* Every cart item has a quantity of 1 or more.
C22_QuantityPositive == \A i \in items : i.quantity >= 1

\* No cart holds two items for one product.
C22_ProductOnce ==
    \A i \in items : \A j \in items : (i.cart = j.cart /\ i.product = j.product) => i = j

InitialStock == [p \in Products |-> IF p = "p1" THEN MaxStock ELSE 1]

\* The quantity of product p in the items of the orders from o on.
RECURSIVE Ordered(_, _)
Ordered(p, o) ==
    IF o > Len(orders) THEN 0 ELSE Taken(orders[o].lines, p, 1) + Ordered(p, o + 1)

\* The stock a product had is its stock now plus the quantities ordered.
C23_Conserved == \A p \in Products : InitialStock[p] = stock[p] + Ordered(p, 1)

\* A step that changes a product's stock is the commit of a checkout that
\* succeeds.
C23_OnlyCheckout ==
    stock' # stock
    => /\ \E t \in Threads : th[t].pc = "ck_write" /\ Ends(t)
       /\ last'.op = "checkout" /\ last'.res = "ok"
       /\ Len(orders') = Len(orders) + 1

\* C23: product stock is changed only by a successful checkout: every cart
\* call, every failed checkout and every simulate_payment leaves all product
\* stock unchanged, and in every reachable state each product's initial stock
\* is its current stock plus the quantities of all order items for it.
C23_StockOnlyByCheckout == []C23_Conserved /\ [][C23_OnlyCheckout]_vars

\* C23's case: a cart of two units of p1 and one of p2 was ordered and paid,
\* a checkout has failed since, and the stock is down by what was ordered.
C23_Witness ==
    /\ Len(orders) >= 1 /\ Len(payments) >= 1
    /\ last.op = "checkout" /\ last.res = "InvalidCart"
    /\ Ordered("p1", 1) = 2 /\ stock["p1"] = MaxStock - 2
    /\ Ordered("p2", 1) = 1 /\ stock["p2"] = 0
\* ---------------------------------------------------------------- C24
\* An order is Paid exactly when a Payment with status Paid exists for it.
C24_PaidIffPayment ==
    \A o \in 1..Len(orders) :
        orders[o].status = "paid"
        <=> \E k \in 1..Len(payments) : payments[k].order = o /\ payments[k].status = "paid"

\* An order's status moves from Pending to Paid and in no other way, a new
\* order is Pending, and no payment is changed or removed.
C24_Moves ==
    /\ Len(orders') >= Len(orders)
    /\ \A o \in 1..Len(orders) :
           orders'[o].status # orders[o].status
           => orders[o].status = "pending" /\ orders'[o].status = "paid"
    /\ \A o \in (Len(orders) + 1)..Len(orders') : orders'[o].status = "pending"
    /\ Len(payments') >= Len(payments)
    /\ \A k \in 1..Len(payments) : payments'[k] = payments[k]

\* C24: starting from orders created by checkout, under any sequence and
\* interleaving of the services' calls, an order's status is Paid if and only
\* if a Payment with status Paid exists for it, and an order's status only
\* ever moves from Pending to Paid and never returns to Pending.
C24_OrderStatus == []C24_PaidIffPayment /\ [][C24_Moves]_vars

\* C24's case: of two orders created by checkout one is paid, with its one
\* Paid payment, and the other is still Pending with no payment, after a
\* second call on the paid order.
C24_Witness ==
    /\ Len(orders) = 2 /\ Len(payments) = 1
    /\ orders[payments[1].order].status = "paid"
    /\ \E o \in 1..2 : orders[o].status = "pending"
    /\ last.op = "pay" /\ last.res = "ok" /\ last.ret = 1
    /\ payments[1].method # last.arg
\* ---------------------------------------------------------------- C25
\* checkout_cart beside the calls that add, change and remove cart items, by
\* both users, on the shop with u1's cart.
SpecCarts == InitCart /\ [][CheckoutNext \/ UpdateNext \/ RmItemNext \/ AddNext]_vars

\* The orders that refer to cart c.
OrdersOfCart(c) == {o \in 1..Len(orders) : orders[o].cart = c}

\* C25: in every reachable state, each Converted cart has no cart items and
\* is referenced by exactly one order, each order created by checkout
\* references a Converted cart owned by the order's user, and no two orders
\* reference the same cart.
C25_CartOrderLink ==
    /\ \A c \in 1..Len(carts) :
           carts[c].status = "converted"
           => ItemsOf(c) = {} /\ Cardinality(OrdersOfCart(c)) = 1
    /\ \A o \in 1..Len(orders) :
           /\ orders[o].cart \in 1..Len(carts)
           /\ carts[orders[o].cart].status = "converted"
           /\ carts[orders[o].cart].user = orders[o].user
    /\ \A o \in 1..Len(orders) : \A k \in 1..Len(orders) :
           orders[o].cart = orders[k].cart => o = k

\* C25's case: each user has an order that refers to the user's own
\* Converted cart, and a call on an item of such a cart has ended NotFound.
C25_Witness ==
    /\ Len(orders) = 2
    /\ orders[1].user # orders[2].user
    /\ orders[1].cart # orders[2].cart
    /\ \A o \in 1..2 : carts[orders[o].cart].status = "converted"
    /\ last.op = "update" /\ last.res = "NotFound"
\* ---------------------------------------------------------------- C26
\* checkout_cart, update_cart_item_quantity, remove_cart_item and
\* simulate_payment called by both users, with any identifiers, on the shop
\* with u1's cart.
SpecUsers == InitCart /\ [][CheckoutNext \/ UpdateNext \/ RmItemNext \/ PayNext]_vars

\* The rows user u owns: carts, cart items, orders with their items, payments.
OwnedBy(u) ==
    <<{<<c, carts[c]>> : c \in {d \in 1..Len(carts) : carts[d].user = u}},
      {i \in items : carts[i.cart].user = u},
      {<<o, orders[o]>> : o \in {k \in 1..Len(orders) : orders[k].user = u}},
      {<<k, payments[k]>> : k \in {j \in 1..Len(payments) : orders[payments[j].order].user = u}}>>

\* The user thread t's step acts for.
C26_Caller(t) == IF th[t].pc = "idle" THEN th'[t].user ELSE th[t].user

\* A step of a call made as one user leaves the rows of every other user as
\* they were, and a call that ends at once writes nothing.
C26_Frame ==
    /\ \A t \in Threads : th'[t] # th[t]
           => \A u \in Users \ {C26_Caller(t)} : OwnedBy(u)' = OwnedBy(u)
    /\ (th' = th /\ admin' = admin) => db' = db

\* Item id is in a cart of another user than u.
C26_ForeignItem(u, id) == ItemExists(id) /\ carts[ItemById(id).cart].user # u

\* A call that starts with an identifier of another user's cart, address,
\* item or order and ends at once fails with InvalidCart (checkout) or
\* NotFound (the others), and a checkout or an update of that kind does end
\* at once.
C26_Start ==
    ((th' = th /\ admin' = admin) \/ \E t \in Threads : th[t].pc = "idle" /\ th'[t].pc # "idle")
    => /\ \A t \in Threads, u \in Users, c \in 1..MaxCarts, a \in Addresses :
              (CheckoutBegin(t, u, c, a)
                  /\ (AddressOwner[a] # u \/ (c <= Len(carts) /\ carts[c].user # u)))
              => th'[t].pc = "idle" /\ last'.res = "InvalidCart"
       /\ \A t \in Threads, u \in Users, id \in 1..MaxItems, q \in 0..MaxQty :
              (UpdBegin(t, u, id, q) /\ C26_ForeignItem(u, id))
              => th'[t].pc = "idle" /\ last'.res = "NotFound"
       /\ \A t \in Threads, u \in Users, id \in 1..MaxItems :
              (RmItemCart(t, u, id) /\ C26_ForeignItem(u, id))
              => th'[t].pc = "rmi_get" \/ last'.res = "NotFound"
       /\ \A t \in Threads, u \in Users, o \in 1..MaxOrders, m \in Methods :
              (PayBegin(t, u, o, m) /\ o <= Len(orders) /\ orders[o].user # u)
              => th'[t].pc = "idle" /\ last'.res = "NotFound"

\* A remove_item_by_id that has the caller's cart and looks up an item of
\* another user's cart fails with NotFound.
C26_Get(t) ==
    (th[t].pc = "rmi_get" /\ th'[t].pc # "rmi_get" /\ C26_ForeignItem(th[t].user, th[t].item))
    => th'[t].pc = "idle" /\ last'.res = "NotFound"

\* C26: users are isolated from each other: no call made as user A, with any
\* product, cart, item, order or address identifier, creates, changes or
\* deletes a cart, cart item, order, order item or payment of user B, and a
\* call given an identifier of B's cart, address, item or order fails with
\* InvalidCart or NotFound.
C26_UserIsolation == [][C26_Frame /\ C26_Start /\ \A t \in Threads : C26_Get(t)]_vars
\* ---------------------------------------------------------------- C27
\* The step that commits thread t's checkout: the order's items are the
\* (product, quantity) pairs of the items the cart holds at that step, one
\* order item for each, and only their products' stock is lowered.
C27_Step(t) ==
    (th[t].pc = "ck_write" /\ Ends(t))
    => /\ Len(orders') = Len(orders) + 1
       /\ LET lines == orders'[Len(orders')].lines
              held == ItemsOf(th[t].cart)
          IN  /\ {<<lines[i].product, lines[i].quantity>> : i \in 1..Len(lines)}
                     = {<<it.product, it.quantity>> : it \in held}
              /\ Len(lines) = Cardinality(held)
              /\ \A p \in Products :
                     stock'[p] # stock[p] => \E it \in held : it.product = p

\* C27: cart mutation is safe beside a checkout of the same cart: the order a
\* successful checkout creates contains exactly the (product, quantity) pairs
\* the cart holds when the checkout commits, so that an item removed by
\* remove_item_by_id before the commit is not ordered and lowers no stock, and
\* a quantity changed before the commit is the quantity ordered.
C27_CheckoutOrdersCart == [][\A t \in Threads : C27_Step(t)]_vars
====
